---- MODULE Spec2Model ----
(***************************************************************************)
(* Model of layman's overlay base class (layman/overlays/overlay.py) and  *)
(* of its message sink (layman/output.py).                                *)
(*                                                                         *)
(* The module holds seven independent state machines, one per group of    *)
(* operations.  Each has its own initial predicate and next-state         *)
(* relation; while one runs, the variables of the others stay idle.       *)
(*   SpecFS  Overlay.add / sync / delete on the storage roots             *)
(*   SpecPR  Overlay.set_priority                                         *)
(*   SpecCT  Overlay.__init__ on a parsed descriptor                      *)
(*   SpecSU  Overlay.supported / is_supported                             *)
(*   SpecSL  Overlay.short_list                                           *)
(*   SpecCM  Overlay.cmd and the child process it starts                  *)
(*   SpecMS  Message: construction, level setters, info and warn          *)
(* Strings are sequences of one-character strings, so that strip, int,    *)
(* str, replace and slicing are computed character by character.          *)
(***************************************************************************)
EXTENDS Integers, Sequences, FiniteSets, TLC

VARIABLES
    dirs,       \* filesystem: set of <<base, name>> whose directory base/name exists
    baseDirs,   \* filesystem: set of storage roots that exist as directories
    pre,        \* filesystem content (dirs) right before the last call
    last,       \* the last call made: [op, base, name, result]
    afterAdd,   \* whether the call before the last one added the last call's overlay
    priority,   \* Overlay.priority, an integer
    dataPrio,   \* Overlay.data['&priority']: [has, s], s the stored string when has
    lastSet,    \* the last set_priority call: [op, arg, result]
    xml,        \* the descriptor dict (node_to_dict(xml)) given to Overlay.__init__
    ignore,     \* the ignore argument given to Overlay.__init__
    rec,        \* what Overlay.__init__ produced: the record or the exception
    binaries,   \* the binaries the overlay type hands to Overlay.supported
    present,    \* filesystem: the binary paths for which os.path.exists holds
    supp,       \* the last supported()/is_supported() call: [op, result]
    ov,         \* the record short_list renders: [name, type, src]
    width,      \* the width argument of short_list
    env,        \* [columns, tty]: COLUMNS and the TIOCGWINSZ answer, 0 when unusable
    line,       \* [done, s]: the line short_list returned
    quiet,      \* Overlay.quiet
    pc,         \* where the caller of cmd() is: idle, system, wait, returned
    child,      \* the child process: none, running, exited
    outLeft,    \* bytes the child still has to write to its stdout
    errLeft,    \* bytes the child still has to write to its stderr
    outBuf,     \* bytes sitting unread in the stdout pipe
    errBuf,     \* bytes sitting unread in the stderr pipe
    exitStatus, \* the exit status the child ends with
    result,     \* what cmd() returned
    dflt,       \* [info, warn]: INFO_LEVEL and WARN_LEVEL of layman.constants
    args,       \* [info_level, warn_level]: the arguments given to Message(...)
    made,       \* whether the Message has been constructed
    info_lev,   \* Message.info_lev
    warn_lev,   \* Message.warn_lev
    wasSet,     \* [info, warn]: set_info_level / set_warn_level called since
    emit        \* the last info()/warn() call: [op, level, printed]

fsVars == <<dirs, baseDirs, pre, last, afterAdd>>
prVars == <<priority, dataPrio, lastSet>>
ctVars == <<xml, ignore, rec>>
suVars == <<binaries, present, supp>>
slVars == <<ov, width, env, line>>
cmVars == <<quiet, pc, child, outLeft, errLeft, outBuf, errBuf, exitStatus, result>>
msVars == <<dflt, args, made, info_lev, warn_lev, wasSet, emit>>

vars == <<fsVars, prVars, ctVars, suVars, slVars, cmVars, msVars>>

(***************************************************************************)
(* Bounds                                                                  *)
(***************************************************************************)
NumBases == 2
NumNames == 2
MaxLen == 2         \* longest string passed to set_priority
MaxPrio == 11       \* largest magnitude of an integer passed to set_priority
MaxText == 1        \* longest text of a <name> or <source> element
MaxIgnore == 2      \* largest ignore level passed to Overlay.__init__
NumPaths == 3       \* number of distinct binary paths
MaxBinaries == 2    \* longest list of required binaries
MaxOver == 1        \* how far a name or type may exceed its column
MaxSuf == 8         \* longest path part of a generated source URL
MaxWidth == 60      \* largest width argument besides the doctest's 80
PipeCap == 2        \* capacity of an operating-system pipe
MaxOut == 3         \* most bytes a child writes to one stream
MaxStatus == 1      \* largest exit status of a child
MaxLevel == 2       \* highest message level

Bases == 1..NumBases
Names == 1..NumNames

(***************************************************************************)
(* Overlay.add / sync / delete                                             *)
(***************************************************************************)
NoCall == [op |-> "none", base |-> 0, name |-> 0, result |-> "none"]

Call(op, b, n, r) == [op |-> op, base |-> b, name |-> n, result |-> r]

\* the last call was a successful add of base/name
JustAdded(b, n) == last = Call("add", b, n, "ok")

\* os.path.exists(path([base, name]))
exists(b, n) == <<b, n>> \in dirs

\* os.makedirs(mdir): creates the leaf and every missing parent
makedirs(b, n) ==
    /\ dirs' = dirs \cup {<<b, n>>}
    /\ baseDirs' = baseDirs \cup {b}

\* rmtree applied to the storage root instead of the overlay directory
rmtree_base(b, n) ==
    /\ dirs' = {d \in dirs : d[1] # b}
    /\ baseDirs' = baseDirs

\* shutil.rmtree(mdir): removes the tree rooted at base/name, not its parent
rmtree(b, n) ==
    /\ dirs' = dirs \ {<<b, n>>}
    /\ baseDirs' = baseDirs

\* add without the existence test of line 146
add_noCheck(b, n) ==
    /\ pre' = dirs
    /\ afterAdd' = JustAdded(b, n)
    /\ makedirs(b, n)
    /\ last' = Call("add", b, n, "ok")

add(b, n) ==
    /\ pre' = dirs
    /\ afterAdd' = JustAdded(b, n)
    /\ IF exists(b, n)
       THEN /\ last' = Call("add", b, n, "already exists")
            /\ UNCHANGED <<dirs, baseDirs>>
       ELSE /\ makedirs(b, n)
            /\ last' = Call("add", b, n, "ok")

sync(b, n) ==
    /\ pre' = dirs
    /\ afterAdd' = JustAdded(b, n)
    /\ last' = Call("sync", b, n, "ok")
    /\ UNCHANGED <<dirs, baseDirs>>

\* delete that tolerates a missing directory (rmtree with ignore_errors)
delete_noCheck(b, n) ==
    /\ pre' = dirs
    /\ afterAdd' = JustAdded(b, n)
    /\ rmtree(b, n)
    /\ last' = Call("delete", b, n, "ok")

delete(b, n) ==
    /\ pre' = dirs
    /\ afterAdd' = JustAdded(b, n)
    /\ IF ~exists(b, n)
       THEN /\ last' = Call("delete", b, n, "does not exist")
            /\ UNCHANGED <<dirs, baseDirs>>
       ELSE /\ rmtree(b, n)
            /\ last' = Call("delete", b, n, "ok")

IdleFS ==
    /\ dirs = {}
    /\ baseDirs = {}
    /\ pre = {}
    /\ last = NoCall
    /\ afterAdd = FALSE

InitFS ==
    /\ dirs \in SUBSET (Bases \X Names)
    /\ baseDirs \in SUBSET Bases
    /\ \A d \in dirs : d[1] \in baseDirs
    /\ pre = dirs
    /\ last = NoCall
    /\ afterAdd = FALSE

NextFS ==
    \/ \E b \in Bases, n \in Names : add(b, n) /\ UNCHANGED <<prVars, ctVars, suVars, slVars, cmVars, msVars>>
    \/ \E b \in Bases, n \in Names : sync(b, n) /\ UNCHANGED <<prVars, ctVars, suVars, slVars, cmVars, msVars>>
    \/ \E b \in Bases, n \in Names : delete(b, n) /\ UNCHANGED <<prVars, ctVars, suVars, slVars, cmVars, msVars>>


(***************************************************************************)
(* Strings are sequences of one-character strings.                         *)
(***************************************************************************)
Digits == <<"0", "1", "2", "3", "4", "5", "6", "7", "8", "9">>

IsDigit(c) == \E d \in 1..10 : Digits[d] = c

DigitVal(c) == (CHOOSE d \in 1..10 : Digits[d] = c) - 1

IsSpace(c) == c = " "

RECURSIVE Strings(_, _)
\* all strings over the alphabet A of length at most n
Strings(A, n) ==
    IF n = 0 THEN {<<>>}
    ELSE LET S == Strings(A, n - 1)
         IN  S \cup {Append(s, c) : s \in {t \in S : Len(t) = n - 1}, c \in A}

RECURSIVE lstrip(_)
lstrip(s) == IF s # <<>> /\ IsSpace(Head(s)) THEN lstrip(Tail(s)) ELSE s

RECURSIVE rstrip(_)
rstrip(s) ==
    IF s # <<>> /\ IsSpace(s[Len(s)]) THEN rstrip(SubSeq(s, 1, Len(s) - 1)) ELSE s

\* unicode.strip()
strip(s) == rstrip(lstrip(s))

RECURSIVE str_int(_)
\* str(i) of a Python integer
str_int(i) ==
    IF i < 0 THEN <<"-">> \o str_int(-i)
    ELSE IF i < 10 THEN <<Digits[i + 1]>>
    ELSE str_int(i \div 10) \o <<Digits[(i % 10) + 1]>>

RECURSIVE DigitsVal(_)
\* value of a non-empty string of decimal digits
DigitsVal(s) ==
    IF Len(s) = 1 THEN DigitVal(s[1])
    ELSE 10 * DigitsVal(SubSeq(s, 1, Len(s) - 1)) + DigitVal(s[Len(s)])

\* int(s) of a string: surrounding whitespace, one optional sign, then digits
\* only; anything else raises ValueError
int_str(s) ==
    LET t == strip(s)
        signed == t # <<>> /\ t[1] \in {"-", "+"}
        d == IF signed THEN Tail(t) ELSE t
    IN  IF d # <<>> /\ \A k \in 1..Len(d) : IsDigit(d[k])
        THEN [ok |-> TRUE,
              val |-> IF signed /\ t[1] = "-" THEN -DigitsVal(d) ELSE DigitsVal(d)]
        ELSE [ok |-> FALSE, val |-> 0]

(***************************************************************************)
(* Overlay.set_priority                                                    *)
(***************************************************************************)
PyInt(i) == [k |-> "int", i |-> i, s |-> <<>>]
PyStr(s) == [k |-> "str", i |-> 0, s |-> s]

PrioChars == {"1", "2", "-", " ", "a"}

\* the values a caller passes to set_priority: Python integers and strings
PrioArgs ==
    {PyInt(i) : i \in -MaxPrio..MaxPrio} \cup {PyStr(s) : s \in Strings(PrioChars, MaxLen)}

\* str(priority)
str(v) == IF v.k = "int" THEN str_int(v.i) ELSE v.s

\* int(priority): [ok, val], ok false when Python raises ValueError
int(v) == IF v.k = "int" THEN [ok |-> TRUE, val |-> v.i] ELSE int_str(v.s)

NoAttr == [has |-> FALSE, s |-> <<>>]
Attr(s) == [has |-> TRUE, s |-> s]

NoSet == [op |-> "none", arg |-> PyInt(0), result |-> "none"]

set_priority(v) ==
    /\ dataPrio' = Attr(str(v))
    /\ IF int(v).ok
       THEN /\ priority' = int(v).val
            /\ lastSet' = [op |-> "set_priority", arg |-> v, result |-> "ok"]
       ELSE /\ priority' = priority
            /\ lastSet' = [op |-> "set_priority", arg |-> v, result |-> "ValueError"]

IdlePR ==
    /\ priority = 50
    /\ dataPrio = NoAttr
    /\ lastSet = NoSet

\* the record as __init__ leaves it: priority is int(data['&priority']), or 50
\* when the attribute is missing (a non-integer attribute aborts construction)
InitPR ==
    /\ dataPrio \in {NoAttr} \cup
                    {Attr(s) : s \in {t \in Strings(PrioChars, MaxLen) : int_str(t).ok}}
    /\ priority = IF dataPrio.has THEN int_str(dataPrio.s).val ELSE 50
    /\ lastSet = NoSet

NextPR ==
    \/ \E v \in PrioArgs : set_priority(v) /\ UNCHANGED <<fsVars, ctVars, suVars, slVars, cmVars, msVars>>



(***************************************************************************)
(* Overlay.__init__                                                        *)
(***************************************************************************)
Opt(S) == {NoAttr} \cup {Attr(t) : t \in S}

Texts == Strings({" ", "a"}, MaxText)

NoOwner == [has |-> FALSE, email |-> NoAttr, name |-> NoAttr]

\* the <owner> element: absent, or present with optional <email> and <name>
Owners ==
    {NoOwner} \cup
    [has : {TRUE}, email : Opt({<<"a">>, <<" ">>}), name : Opt({<<"a">>})]

\* self.data: '<name>1', '&name', '<source>1', '&src', '<owner>1', '&contact',
\* '<description>1', '&status', '&priority'
Descriptors ==
    [nameElem : Opt(Texts), nameAttr : Opt({<<>>, <<"a">>}),
     srcElem  : Opt(Texts), srcAttr  : Opt({<<>>, <<"a">>}),
     owner    : Owners,     contact  : Opt({<<"a">>}),
     descr    : Opt({<<"a">>}),
     status   : Opt({<<"o">>}),
     prio     : Opt({<<"7">>, <<"a">>})]

Ignores == 0..MaxIgnore

NoDescriptor ==
    [nameElem |-> NoAttr, nameAttr |-> NoAttr, srcElem |-> NoAttr,
     srcAttr |-> NoAttr, owner |-> NoOwner, contact |-> NoAttr,
     descr |-> NoAttr, status |-> NoAttr, prio |-> NoAttr]

Fields(n, s, e, on, de, st, p) ==
    [name |-> n, src |-> s, owner_email |-> e, owner_name |-> on,
     description |-> de, status |-> st, priority |-> p]

NoFields == Fields(<<>>, <<>>, <<>>, NoAttr, <<>>, <<>>, 0)

NoRecord == [state |-> "none", error |-> "none", warns |-> <<>>, obj |-> NoFields]

\* raise Exception(...): no object; the warnings issued before stay issued
Raised(what, w) == [state |-> "raised", error |-> what, warns |-> w, obj |-> NoFields]

Built(w, o) == [state |-> "built", error |-> "none", warns |-> w, obj |-> o]

hasName(d) == d.nameElem.has \/ d.nameAttr.has
hasSource(d) == d.srcElem.has \/ d.srcAttr.has
hasOwnerEmail(d) == d.owner.has /\ d.owner.email.has
hasContact(d) == hasOwnerEmail(d) \/ d.contact.has
hasDescription(d) == d.descr.has
hasPriority(d) == ~d.prio.has \/ int_str(d.prio.s).ok

\* the slip "elif ignore:" for "elif ignore == 1:"
warnsWhen_anyNonZero(ign) == ign # 0

\* OUT.warn(..., 4) is called iff the field is missing and this test holds
warnsWhen(ign) == ign = 1

\* Overlay.__init__(xml, ignore): the statements in source order; the first
\* raise ends the construction
Overlay__init__(d, ign) ==
    LET name == IF d.nameElem.has THEN strip(d.nameElem.s) ELSE d.nameAttr.s
        src == IF d.srcElem.has THEN strip(d.srcElem.s) ELSE d.srcAttr.s
        owner_email ==
            IF hasOwnerEmail(d) THEN strip(d.owner.email.s)
            ELSE IF d.contact.has THEN d.contact.s ELSE <<>>
        owner_name ==
            IF hasOwnerEmail(d) /\ d.owner.name.has
            THEN Attr(strip(d.owner.name.s)) ELSE NoAttr
        w1 == IF ~hasContact(d) /\ warnsWhen(ign) THEN <<"owner.email">> ELSE <<>>
        description == IF d.descr.has THEN strip(d.descr.s) ELSE <<>>
        w2 == IF ~hasDescription(d) /\ warnsWhen(ign)
              THEN Append(w1, "description") ELSE w1
        status == IF d.status.has THEN d.status.s ELSE <<>>
        prio == IF d.prio.has THEN int_str(d.prio.s).val ELSE 50
    IN  IF ~hasName(d) THEN Raised("name", <<>>)
        ELSE IF ~hasSource(d) THEN Raised("source", <<>>)
        ELSE IF ~hasContact(d) /\ ign = 0 THEN Raised("owner.email", <<>>)
        ELSE IF ~hasDescription(d) /\ ign = 0 THEN Raised("description", w1)
        ELSE IF ~hasPriority(d) THEN Raised("ValueError", w2)
        ELSE Built(w2, Fields(name, src, owner_email, owner_name,
                              description, status, prio))

\* one construction per object
Construct ==
    /\ rec.state = "none"
    /\ rec' = Overlay__init__(xml, ignore)
    /\ UNCHANGED <<xml, ignore>>

IdleCT ==
    /\ xml = NoDescriptor
    /\ ignore = 0
    /\ rec = NoRecord

\* the arguments of the call, before __init__ runs
InitCT ==
    /\ xml \in Descriptors
    /\ ignore \in Ignores
    /\ rec = NoRecord

NextCT ==
    \/ Construct /\ UNCHANGED <<fsVars, prVars, suVars, slVars, cmVars, msVars>>


(***************************************************************************)
(* Overlay.supported / Overlay.is_supported                                *)
(***************************************************************************)
Paths == 1..NumPaths

RECURSIVE SeqsUpTo(_, _)
\* all sequences over S of length at most n
SeqsUpTo(S, n) ==
    IF n = 0 THEN {<<>>}
    ELSE LET R == SeqsUpTo(S, n - 1)
         IN  R \cup {Append(q, x) : q \in {t \in R : Len(t) = n - 1}, x \in S}

NoSupp == [op |-> "none", result |-> "none"]

\* the slip of returning from inside the loop: only the first binary is tested
supported_firstOnly(bins) ==
    IF bins = <<>> THEN "True"
    ELSE IF Head(bins) \notin present THEN "raised"
    ELSE "True"

RECURSIVE supported(_)
\* supported(binaries): raises at the first missing binary, else returns True
supported(bins) ==
    IF bins = <<>> THEN "True"
    ELSE IF Head(bins) \notin present THEN "raised"
    ELSE supported(Tail(bins))

\* self.supported(): an overlay type overrides supported() to hand its own
\* list of binaries to Overlay.supported; the base class hands none
self_supported == supported(binaries)

\* is_supported(): self.supported() inside try/except Exception
is_supported == IF self_supported = "raised" THEN "False" ELSE "True"

CallSupported ==
    /\ supp' = [op |-> "supported", result |-> self_supported]
    /\ UNCHANGED <<binaries, present>>

CallIsSupported ==
    /\ supp' = [op |-> "is_supported", result |-> is_supported]
    /\ UNCHANGED <<binaries, present>>

\* the environment installs or removes a binary between calls
Install(p) ==
    /\ p \notin present
    /\ present' = present \cup {p}
    /\ UNCHANGED <<binaries, supp>>

Remove(p) ==
    /\ p \in present
    /\ present' = present \ {p}
    /\ UNCHANGED <<binaries, supp>>

IdleSU ==
    /\ binaries = <<>>
    /\ present = {}
    /\ supp = NoSupp

\* binaries = <<>> is the base class, whose supported() is called bare
InitSU ==
    /\ binaries \in SeqsUpTo(Paths, MaxBinaries)
    /\ present \in SUBSET Paths
    /\ supp = NoSupp

NextSU ==
    \/ CallSupported /\ UNCHANGED <<fsVars, prVars, ctVars, slVars, cmVars, msVars>>
    \/ CallIsSupported /\ UNCHANGED <<fsVars, prVars, ctVars, slVars, cmVars, msVars>>
    \/ \E p \in Paths : Install(p) /\ UNCHANGED <<fsVars, prVars, ctVars, slVars, cmVars, msVars>>
    \/ \E p \in Paths : Remove(p) /\ UNCHANGED <<fsVars, prVars, ctVars, slVars, cmVars, msVars>>

(***************************************************************************)
(* Overlay.short_list                                                      *)
(***************************************************************************)
RECURSIVE Rep(_, _)
\* c * n
Rep(c, n) == IF n <= 0 THEN <<>> ELSE <<c>> \o Rep(c, n - 1)

\* string[:k]
SliceTo(string, k) ==
    IF k >= 0
    THEN SubSeq(string, 1, IF k < Len(string) THEN k ELSE Len(string))
    ELSE SubSeq(string, 1, Len(string) + k)

\* the slip of cutting at length instead of length - 3
pad_noRoom(string, length) ==
    IF Len(string) <= length
    THEN string \o Rep(" ", length - Len(string))
    ELSE SliceTo(string, length) \o <<".", ".", ".">>

pad(string, length) ==
    IF Len(string) <= length
    THEN string \o Rep(" ", length - Len(string))
    ELSE SliceTo(string, length - 3) \o <<".", ".", ".">>

terminal_width(e) ==
    IF e.columns > 0 THEN e.columns
    ELSE IF e.tty > 0 THEN e.tty
    ELSE 80

RECURSIVE replace(_, _, _)
\* string.replace(old, new), old non-empty
replace(string, old, new) ==
    IF Len(string) < Len(old) THEN string
    ELSE IF SubSeq(string, 1, Len(old)) = old
    THEN new \o replace(SubSeq(string, Len(old) + 1, Len(string)), old, new)
    ELSE <<Head(string)>> \o replace(Tail(string), old, new)

LongHost ==
    <<"o", "v", "e", "r", "l", "a", "y", "s", ".",
      "g", "e", "n", "t", "o", "o", ".", "o", "r", "g">>

ShortHost == <<"o", ".", "g", ".", "o">>

NameCol == 25
TypeCol == 10
FixedCols == 43

\* the width short_list works with
effective_width(w, e) == IF w = 0 THEN terminal_width(e) ELSE w

short_list(o, w, e) ==
    LET name == pad(o.name, NameCol)
        mtype == <<" ", "[">> \o pad(o.type, TypeCol) \o <<"]">>
        srclen == effective_width(w, e) - FixedCols
        source == IF Len(o.src) > srclen
                  THEN replace(o.src, LongHost, ShortHost) ELSE o.src
    IN  name \o mtype \o <<" ", "(">> \o pad(source, srclen) \o <<")">>

CallShortList ==
    /\ ~line.done
    /\ line' = [done |-> TRUE, s |-> short_list(ov, width, env)]
    /\ UNCHANGED <<ov, width, env>>

\* the record and the call of the doctest of short_list
Wrobel == <<"w", "r", "o", "b", "e", "l">>

TypeNone == <<"N", "o", "n", "e">>

WrobelSrc ==
    <<"h", "t", "t", "p", "s", ":", "/", "/">> \o LongHost \o
    <<"/", "s", "v", "n", "/", "d", "e", "v", "/">> \o Wrobel

DoctestWidth == 80

NameInputs ==
    {Wrobel} \cup {Rep("n", k) : k \in {0} \cup ((NameCol - 1)..(NameCol + MaxOver))}

TypeInputs ==
    {TypeNone} \cup {Rep("t", k) : k \in (TypeCol - 1)..(TypeCol + MaxOver)}

SrcInputs ==
    {WrobelSrc} \cup
    {Rep("p", i) \o h \o Rep("s", j) :
        i \in 0..1, h \in {<<>>, LongHost}, j \in 0..MaxSuf}

WidthInputs == (0..MaxWidth) \cup {DoctestWidth}

EnvInputs == [columns : {0, 50}, tty : {0, 70}]

IdleSL ==
    /\ ov = [name |-> <<>>, type |-> TypeNone, src |-> <<>>]
    /\ width = 0
    /\ env = [columns |-> 0, tty |-> 0]
    /\ line = [done |-> FALSE, s |-> <<>>]

InitSL ==
    /\ ov \in [name : NameInputs, type : TypeInputs, src : SrcInputs]
    /\ width \in WidthInputs
    /\ env \in EnvInputs
    /\ line = [done |-> FALSE, s |-> <<>>]

NextSL ==
    \/ CallShortList /\ UNCHANGED <<fsVars, prVars, ctVars, suVars, cmVars, msVars>>


(***************************************************************************)
(* Overlay.cmd                                                             *)
(***************************************************************************)
\* cmd(command): os.system(command) when not quiet, else Popen with both
\* streams on pipes followed by cmd.wait()
StartCmd ==
    /\ pc = "idle"
    /\ child' = "running"
    /\ pc' = IF quiet THEN "wait" ELSE "system"
    /\ UNCHANGED <<quiet, outLeft, errLeft, outBuf, errBuf, exitStatus, result>>

\* the child writes one byte to stdout: to the console when the streams are
\* inherited, into the pipe (which must have room) under Popen
ChildWriteOut ==
    /\ child = "running"
    /\ outLeft > 0
    /\ quiet => outBuf < PipeCap
    /\ outLeft' = outLeft - 1
    /\ outBuf' = IF quiet THEN outBuf + 1 ELSE outBuf
    /\ UNCHANGED <<quiet, pc, child, errLeft, errBuf, exitStatus, result>>

ChildWriteErr ==
    /\ child = "running"
    /\ errLeft > 0
    /\ quiet => errBuf < PipeCap
    /\ errLeft' = errLeft - 1
    /\ errBuf' = IF quiet THEN errBuf + 1 ELSE errBuf
    /\ UNCHANGED <<quiet, pc, child, outLeft, outBuf, exitStatus, result>>

\* the child ends once everything is written
ChildExit ==
    /\ child = "running"
    /\ outLeft = 0
    /\ errLeft = 0
    /\ child' = "exited"
    /\ UNCHANGED <<quiet, pc, outLeft, errLeft, outBuf, errBuf, exitStatus, result>>

\* cmd.wait() gives the exit status, os.system() the wait status (status << 8);
\* nothing in cmd() ever reads the pipes
ReturnCmd ==
    /\ pc \in {"wait", "system"}
    /\ child = "exited"
    /\ result' = IF pc = "wait" THEN exitStatus ELSE exitStatus * 256
    /\ pc' = "returned"
    /\ UNCHANGED <<quiet, child, outLeft, errLeft, outBuf, errBuf, exitStatus>>

IdleCM ==
    /\ quiet = FALSE
    /\ pc = "idle"
    /\ child = "none"
    /\ outLeft = 0
    /\ errLeft = 0
    /\ outBuf = 0
    /\ errBuf = 0
    /\ exitStatus = 0
    /\ result = 0

InitCM ==
    /\ quiet \in BOOLEAN
    /\ pc = "idle"
    /\ child = "none"
    /\ outLeft \in 0..MaxOut
    /\ errLeft \in 0..MaxOut
    /\ outBuf = 0
    /\ errBuf = 0
    /\ exitStatus \in 0..MaxStatus
    /\ result = 0

NextCM ==
    \/ StartCmd /\ UNCHANGED <<fsVars, prVars, ctVars, suVars, slVars, msVars>>
    \/ ChildWriteOut /\ UNCHANGED <<fsVars, prVars, ctVars, suVars, slVars, msVars>>
    \/ ChildWriteErr /\ UNCHANGED <<fsVars, prVars, ctVars, suVars, slVars, msVars>>
    \/ ChildExit /\ UNCHANGED <<fsVars, prVars, ctVars, suVars, slVars, msVars>>
    \/ ReturnCmd /\ UNCHANGED <<fsVars, prVars, ctVars, suVars, slVars, msVars>>

(***************************************************************************)
(* Message (layman/output.py)                                              *)
(***************************************************************************)
Levels == 0..MaxLevel

NoEmit == [op |-> "none", level |-> 0, printed |-> FALSE]

\* MessageBase.__init__(self, out, err, info_level, warn_level, col)
MessageBase__init__(info_level, warn_level) ==
    /\ warn_lev' = warn_level
    /\ info_lev' = info_level

\* Message.__init__ calls MessageBase.__init__(self) bare, so the base class
\* runs with its own defaults INFO_LEVEL and WARN_LEVEL
Message__init__ ==
    /\ ~made
    /\ made' = TRUE
    /\ MessageBase__init__(dflt.info, dflt.warn)
    /\ UNCHANGED <<dflt, args, wasSet, emit>>

set_info_level(l) ==
    /\ made
    /\ info_lev' = l
    /\ wasSet' = [wasSet EXCEPT !.info = TRUE]
    /\ UNCHANGED <<dflt, args, made, warn_lev, emit>>

set_warn_level(l) ==
    /\ made
    /\ warn_lev' = l
    /\ wasSet' = [wasSet EXCEPT !.warn = TRUE]
    /\ UNCHANGED <<dflt, args, made, info_lev, emit>>

\* info(text, level): returns at once when level > info_lev, else prints
info(level) ==
    /\ made
    /\ emit' = [op |-> "info", level |-> level, printed |-> ~(level > info_lev)]
    /\ UNCHANGED <<dflt, args, made, info_lev, warn_lev, wasSet>>

warn(level) ==
    /\ made
    /\ emit' = [op |-> "warn", level |-> level, printed |-> ~(level > warn_lev)]
    /\ UNCHANGED <<dflt, args, made, info_lev, warn_lev, wasSet>>

IdleMS ==
    /\ dflt = [info |-> 0, warn |-> 0]
    /\ args = [info_level |-> 0, warn_level |-> 0]
    /\ made = FALSE
    /\ info_lev = 0
    /\ warn_lev = 0
    /\ wasSet = [info |-> FALSE, warn |-> FALSE]
    /\ emit = NoEmit

\* before Message(...) runs: the module constants and the call's arguments
InitMS ==
    /\ dflt \in [info : Levels, warn : Levels]
    /\ args \in [info_level : Levels, warn_level : Levels]
    /\ made = FALSE
    /\ info_lev = 0
    /\ warn_lev = 0
    /\ wasSet = [info |-> FALSE, warn |-> FALSE]
    /\ emit = NoEmit

NextMS ==
    \/ Message__init__ /\ UNCHANGED <<fsVars, prVars, ctVars, suVars, slVars, cmVars>>
    \/ \E l \in Levels :
          set_info_level(l) /\ UNCHANGED <<fsVars, prVars, ctVars, suVars, slVars, cmVars>>
    \/ \E l \in Levels :
          set_warn_level(l) /\ UNCHANGED <<fsVars, prVars, ctVars, suVars, slVars, cmVars>>
    \/ \E l \in Levels :
          info(l) /\ UNCHANGED <<fsVars, prVars, ctVars, suVars, slVars, cmVars>>
    \/ \E l \in Levels :
          warn(l) /\ UNCHANGED <<fsVars, prVars, ctVars, suVars, slVars, cmVars>>

(***************************************************************************)
(* Specifications: one machine runs, the others stay idle                  *)
(***************************************************************************)
StartFS == InitFS /\ IdlePR /\ IdleCT /\ IdleSU /\ IdleSL /\ IdleCM /\ IdleMS

SpecFS == StartFS /\ [][NextFS]_vars

StartPR == IdleFS /\ InitPR /\ IdleCT /\ IdleSU /\ IdleSL /\ IdleCM /\ IdleMS

SpecPR == StartPR /\ [][NextPR]_vars

StartCT == IdleFS /\ IdlePR /\ InitCT /\ IdleSU /\ IdleSL /\ IdleCM /\ IdleMS

SpecCT == StartCT /\ [][NextCT]_vars

StartSU == IdleFS /\ IdlePR /\ IdleCT /\ InitSU /\ IdleSL /\ IdleCM /\ IdleMS

SpecSU == StartSU /\ [][NextSU]_vars

StartSL == IdleFS /\ IdlePR /\ IdleCT /\ IdleSU /\ InitSL /\ IdleCM /\ IdleMS

SpecSL == StartSL /\ [][NextSL]_vars

StartCM == IdleFS /\ IdlePR /\ IdleCT /\ IdleSU /\ IdleSL /\ InitCM /\ IdleMS

SpecCM == StartCM /\ [][NextCM]_vars

StartMS == IdleFS /\ IdlePR /\ IdleCT /\ IdleSU /\ IdleSL /\ IdleCM /\ InitMS

SpecMS == StartMS /\ [][NextMS]_vars

Target(c) == <<c.base, c.name>>

\* C1: add(base) on an existing base/name fails with the "already exists"
\* error and leaves the filesystem unchanged; on an absent base/name it
\* succeeds and the directory exists afterwards.
C1_AddContract ==
    [][last'.op = "add" =>
         IF Target(last') \in dirs
         THEN /\ last'.result = "already exists"
              /\ dirs' = dirs
              /\ baseDirs' = baseDirs
         ELSE /\ last'.result = "ok"
              /\ Target(last') \in dirs']_vars

C1_Witness ==
    /\ last.op = "add"
    /\ last.result = "already exists"
    /\ Target(last) \in pre
    /\ afterAdd

C3_AddDeleteRoundTrip ==
    [][/\ (/\ last.op = "add"
            /\ last.result = "ok"
            /\ last'.op = "delete"
            /\ Target(last') = Target(last)) =>
               /\ last'.result = "ok"
               /\ dirs' = pre
               /\ Target(last') \notin dirs'
       /\ (last'.op = "add" /\ last'.result = "ok") =>
               (Target(last') \notin dirs /\ Target(last') \in dirs')
       /\ (last'.op = "delete" /\ last'.result = "ok") =>
               (Target(last') \in dirs /\ Target(last') \notin dirs')
       /\ \A t \in Bases \X Names :
             ((t \in dirs) # (t \in dirs')) =>
                 /\ last'.result = "ok"
                 /\ last'.op \in {"add", "delete"}
                 /\ Target(last') = t]_vars

\* an add that succeeded next to another overlay, then a successful delete
C3_Witness ==
    /\ afterAdd
    /\ last.op = "delete"
    /\ last.result = "ok"
    /\ Target(last) \notin dirs
    /\ \E d \in dirs : d[1] = last.base


\* C4: set_priority(value) with a value that does not parse as an integer
\* fails and leaves both priority and data['&priority'] as they were; with an
\* integer value both are updated and agree.
C4_SetPriorityAtomic ==
    [][lastSet'.op = "set_priority" =>
         IF int(lastSet'.arg).ok
         THEN /\ lastSet'.result = "ok"
              /\ priority' = int(lastSet'.arg).val
              /\ dataPrio'.has
              /\ int_str(dataPrio'.s).ok
              /\ int_str(dataPrio'.s).val = priority'
         ELSE /\ lastSet'.result = "ValueError"
              /\ priority' = priority
              /\ dataPrio' = dataPrio]_vars

\* C5: every successfully constructed record has a non-empty name and a
\* non-empty source, and construction fails for every descriptor whose name or
\* source is missing or empty (whitespace-only element text included).
C5_NameAndSourceNonEmpty ==
    /\ rec.state = "built" => (rec.obj.name # <<>> /\ rec.obj.src # <<>>)
    /\ (/\ rec.state # "none"
        /\ \/ ~hasName(xml)
           \/ ~hasSource(xml)
           \/ (xml.nameElem.has /\ strip(xml.nameElem.s) = <<>>)
           \/ (xml.srcElem.has /\ strip(xml.srcElem.s) = <<>>))
       => rec.state = "raised"

\* the descriptor has everything __init__ needs besides owner and description
OtherwiseComplete(d) == hasName(d) /\ hasSource(d) /\ hasPriority(d)

MissingCount(d) ==
    (IF hasContact(d) THEN 0 ELSE 1) + (IF hasDescription(d) THEN 0 ELSE 1)

\* C8: with the owner email or the description missing, construction fails
\* when ignore = 0; when ignore = 1 it succeeds (for a descriptor that is
\* complete otherwise) with the missing field set to the empty string and
\* exactly one warning per missing field; for any other ignore value it
\* succeeds with the empty string and no warning.  A field that is present
\* causes neither an error nor a warning, whatever the mode.
C8_IgnoreLevels ==
    rec.state # "none" =>
      /\ (ignore = 0 /\ MissingCount(xml) > 0) => rec.state = "raised"
      /\ (ignore # 0 /\ OtherwiseComplete(xml)) =>
            /\ rec.state = "built"
            /\ ~hasContact(xml) => rec.obj.owner_email = <<>>
            /\ ~hasDescription(xml) => rec.obj.description = <<>>
            /\ Len(rec.warns) = IF ignore = 1 THEN MissingCount(xml) ELSE 0
            /\ ignore = 1 =>
                 /\ ~hasContact(xml) =>
                      Len(SelectSeq(rec.warns, LAMBDA w : w = "owner.email")) = 1
                 /\ ~hasDescription(xml) =>
                      Len(SelectSeq(rec.warns, LAMBDA w : w = "description")) = 1
      /\ hasContact(xml) =>
            /\ rec.error # "owner.email"
            /\ \A k \in 1..Len(rec.warns) : rec.warns[k] # "owner.email"
      /\ hasDescription(xml) =>
            /\ rec.error # "description"
            /\ \A k \in 1..Len(rec.warns) : rec.warns[k] # "description"
      /\ (OtherwiseComplete(xml) /\ MissingCount(xml) = 0) =>
            (rec.state = "built" /\ rec.warns = <<>>)

\* lenient construction of a descriptor lacking both owner and description
C8_Witness ==
    /\ rec.state = "built"
    /\ ignore = 1
    /\ ~hasContact(xml)
    /\ ~hasDescription(xml)
    /\ rec.warns = <<"owner.email", "description">>
    /\ rec.obj.owner_email = <<>>
    /\ rec.obj.description = <<>>

\* C6: is_supported() never raises; it returns False whenever a binary the
\* overlay type requires is missing and True only when all of them exist.
C6_IsSupported ==
    [][(supp'.op = "is_supported" /\ present' = present) =>
         /\ supp'.result \in {"True", "False"}
         /\ supp'.result = "True" <=>
              \A k \in 1..Len(binaries) : binaries[k] \in present]_vars

\* the first required binary exists, the second is missing
C6_Witness ==
    /\ supp.op = "is_supported"
    /\ supp.result = "False"
    /\ Len(binaries) = 2
    /\ binaries[1] \in present
    /\ binaries[2] \notin present

\* name in columns 1-25, " [", type in columns 28-37, "]", " ("
FieldsInPlace(s) ==
    /\ Len(s) >= NameCol + TypeCol + 5
    /\ SubSeq(s, NameCol + 1, NameCol + 2) = <<" ", "[">>
    /\ s[NameCol + TypeCol + 3] = "]"
    /\ SubSeq(s, NameCol + TypeCol + 4, NameCol + TypeCol + 5) = <<" ", "(">>
    /\ s[Len(s)] = ")"

\* C7 as stated: for every positive width the line short_list(width) returns
\* is no longer than width, with the name in 25 columns and the type in 10.
C7_FitsEveryWidth ==
    (line.done /\ width > 0) =>
        (Len(line.s) <= width /\ FieldsInPlace(line.s))

\* C7 amended: the name always takes 25 columns and the type 10; whenever the
\* width is at least 46, or the source is no longer than width - 43, the line
\* is exactly width - 2 columns long and so fits within the width (a width of
\* 0 stands for the detected terminal width).
C7_FitsFromWidth46 ==
    line.done =>
        LET w == effective_width(width, env)
        IN  /\ FieldsInPlace(line.s)
            /\ (w >= FixedCols + 3 \/ Len(ov.src) <= w - FixedCols)
                  => Len(line.s) = w - 2

\* the doctest: "wrobel", type "None", width 80, host abbreviated
C7_Witness ==
    /\ line.done
    /\ width = DoctestWidth
    /\ ov = [name |-> Wrobel, type |-> TypeNone, src |-> WrobelSrc]
    /\ Len(line.s) = DoctestWidth - 2
    /\ line.s = Wrobel \o Rep(" ", 19) \o <<" ", "[">> \o TypeNone \o Rep(" ", 6)
                \o <<"]", " ", "(">>
                \o <<"h", "t", "t", "p", "s", ":", "/", "/">> \o ShortHost
                \o <<"/", "s", "v", "n", "/", "d", "e", "v", "/">> \o Wrobel
                \o Rep(" ", 9) \o <<")">>

\* the child has something left to write and no pipe it writes to has room
ChildBlocked ==
    /\ child = "running"
    /\ outLeft > 0 \/ errLeft > 0
    /\ outLeft > 0 => outBuf >= PipeCap
    /\ errLeft > 0 => errBuf >= PipeCap

\* C9: in quiet mode cmd() returns the child's exit status however much the
\* child writes: the caller never sits in wait() while the child is blocked
\* writing to a full pipe.
C9_WaitNeverOnBlockedChild ==
    /\ (quiet /\ pc = "wait") => ~ChildBlocked
    /\ (quiet /\ pc = "returned") => result = exitStatus

\* C10: a Message built with explicit info_level = L and warn_level = W uses
\* them: until set_info_level (set_warn_level) is called, info(text, level)
\* prints iff level <= L and warn(text, level) prints iff level <= W.
C10_ExplicitLevelsUsed ==
    /\ (made /\ ~wasSet.info) => info_lev = args.info_level
    /\ (made /\ ~wasSet.warn) => warn_lev = args.warn_level
    /\ (emit.op = "info" /\ ~wasSet.info) =>
          (emit.printed <=> emit.level <= args.info_level)
    /\ (emit.op = "warn" /\ ~wasSet.warn) =>
          (emit.printed <=> emit.level <= args.warn_level)

====
